---- MODULE Spec2Model ----
(***************************************************************************)
(* Model of src/v5app.py: fetch_all_items (the paginated inventory fetch),  *)
(* the main block, and process_orders (inventory loading, label parsing    *)
(* and the greedy stock-reservation pass over the order rows).             *)
(*                                                                         *)
(* Strings are sequences of one-character strings, so that the regular     *)
(* expression, strip, split, rsplit, isdigit, int and the f-string of the  *)
(* source are computed character by character.                             *)
(***************************************************************************)
EXTENDS Integers, Sequences, FiniteSets, TLC

VARIABLES
    pc,                 \* position in the program
    items_exists,       \* FULL_ITEMS_JSON.exists()
    labels_exists,      \* MERGED_LABELS_CSV.exists()
    items,              \* content of full_items.json (sequence of records)
    stock,              \* barcode -> remaining quantity
    sku_dict,           \* barcode -> sku
    df,                 \* the order batch read from merged_labels.csv
    i,                  \* number of rows of df already processed
    fulfillable_df,     \* rows emitted to Fulfillable (with sku_qty)
    unfulfillable_df,   \* rows emitted to Unfulfillable
    misc_df,            \* rows emitted to Misc
    written,            \* output files written by to_csv
    printed,            \* messages printed so far
    log,                \* per processed row: path taken, parse result, ledger before
    cursor,             \* fetch_all_items: cursor of the next request
    params,             \* fetch_all_items: query parameters
    page,               \* fetch_all_items: page counter
    all_items,          \* fetch_all_items: items collected so far
    requests,           \* the query parameters of every request issued
    responses,          \* the response to every request issued
    fetched,            \* what fetch_all_items returned
    full_items_json     \* what fetch_all_items wrote to full_items.json

\* the state of fetch_all_items
fetch_vars == <<cursor, params, page, all_items, requests, responses, fetched,
                full_items_json>>

vars == <<pc, items_exists, labels_exists, items, stock, sku_dict, df, i,
          fulfillable_df, unfulfillable_df, misc_df, written, printed, log,
          cursor, params, page, all_items, requests, responses, fetched,
          full_items_json>>

----------------------------------------------------------------------------
(* Bounds *)

MaxRows == 2
MaxRecords == 2
MaxPages == 2
MaxAnyRecords == 3

----------------------------------------------------------------------------
(* Characters and Python string primitives *)

\* A character is a string of one character; a character that cannot be
\* written here is named by its code point, as in "U+0663".

\* characters matched by \s and removed by str.strip(): those of
\* str.isspace()
Whitespace ==
    { " ", "\t", "\n", "\r", "\f", "U+000B", "U+001C", "U+001D", "U+001E",
      "U+001F", "U+0085", "U+00A0", "U+1680", "U+2000", "U+2001", "U+2002",
      "U+2003", "U+2004", "U+2005", "U+2006", "U+2007", "U+2008", "U+2009",
      "U+200A", "U+2028", "U+2029", "U+202F", "U+205F", "U+3000" }

\* the decimal digits that int() reads, a tuple for each script, the digit of
\* value d at position d + 1
DecimalBlocks ==
    { <<"0", "1", "2", "3", "4", "5", "6", "7", "8", "9">>,
      <<"U+0660", "U+0661", "U+0662", "U+0663", "U+0664", "U+0665", "U+0666", "U+0667", "U+0668", "U+0669">>,
      <<"U+06F0", "U+06F1", "U+06F2", "U+06F3", "U+06F4", "U+06F5", "U+06F6", "U+06F7", "U+06F8", "U+06F9">>,
      <<"U+07C0", "U+07C1", "U+07C2", "U+07C3", "U+07C4", "U+07C5", "U+07C6", "U+07C7", "U+07C8", "U+07C9">>,
      <<"U+0966", "U+0967", "U+0968", "U+0969", "U+096A", "U+096B", "U+096C", "U+096D", "U+096E", "U+096F">>,
      <<"U+09E6", "U+09E7", "U+09E8", "U+09E9", "U+09EA", "U+09EB", "U+09EC", "U+09ED", "U+09EE", "U+09EF">>,
      <<"U+0A66", "U+0A67", "U+0A68", "U+0A69", "U+0A6A", "U+0A6B", "U+0A6C", "U+0A6D", "U+0A6E", "U+0A6F">>,
      <<"U+0AE6", "U+0AE7", "U+0AE8", "U+0AE9", "U+0AEA", "U+0AEB", "U+0AEC", "U+0AED", "U+0AEE", "U+0AEF">>,
      <<"U+0B66", "U+0B67", "U+0B68", "U+0B69", "U+0B6A", "U+0B6B", "U+0B6C", "U+0B6D", "U+0B6E", "U+0B6F">>,
      <<"U+0BE6", "U+0BE7", "U+0BE8", "U+0BE9", "U+0BEA", "U+0BEB", "U+0BEC", "U+0BED", "U+0BEE", "U+0BEF">>,
      <<"U+0C66", "U+0C67", "U+0C68", "U+0C69", "U+0C6A", "U+0C6B", "U+0C6C", "U+0C6D", "U+0C6E", "U+0C6F">>,
      <<"U+0CE6", "U+0CE7", "U+0CE8", "U+0CE9", "U+0CEA", "U+0CEB", "U+0CEC", "U+0CED", "U+0CEE", "U+0CEF">>,
      <<"U+0D66", "U+0D67", "U+0D68", "U+0D69", "U+0D6A", "U+0D6B", "U+0D6C", "U+0D6D", "U+0D6E", "U+0D6F">>,
      <<"U+0DE6", "U+0DE7", "U+0DE8", "U+0DE9", "U+0DEA", "U+0DEB", "U+0DEC", "U+0DED", "U+0DEE", "U+0DEF">>,
      <<"U+0E50", "U+0E51", "U+0E52", "U+0E53", "U+0E54", "U+0E55", "U+0E56", "U+0E57", "U+0E58", "U+0E59">>,
      <<"U+0ED0", "U+0ED1", "U+0ED2", "U+0ED3", "U+0ED4", "U+0ED5", "U+0ED6", "U+0ED7", "U+0ED8", "U+0ED9">>,
      <<"U+0F20", "U+0F21", "U+0F22", "U+0F23", "U+0F24", "U+0F25", "U+0F26", "U+0F27", "U+0F28", "U+0F29">>,
      <<"U+1040", "U+1041", "U+1042", "U+1043", "U+1044", "U+1045", "U+1046", "U+1047", "U+1048", "U+1049">>,
      <<"U+1090", "U+1091", "U+1092", "U+1093", "U+1094", "U+1095", "U+1096", "U+1097", "U+1098", "U+1099">>,
      <<"U+17E0", "U+17E1", "U+17E2", "U+17E3", "U+17E4", "U+17E5", "U+17E6", "U+17E7", "U+17E8", "U+17E9">>,
      <<"U+1810", "U+1811", "U+1812", "U+1813", "U+1814", "U+1815", "U+1816", "U+1817", "U+1818", "U+1819">>,
      <<"U+1946", "U+1947", "U+1948", "U+1949", "U+194A", "U+194B", "U+194C", "U+194D", "U+194E", "U+194F">>,
      <<"U+19D0", "U+19D1", "U+19D2", "U+19D3", "U+19D4", "U+19D5", "U+19D6", "U+19D7", "U+19D8", "U+19D9">>,
      <<"U+1A80", "U+1A81", "U+1A82", "U+1A83", "U+1A84", "U+1A85", "U+1A86", "U+1A87", "U+1A88", "U+1A89">>,
      <<"U+1A90", "U+1A91", "U+1A92", "U+1A93", "U+1A94", "U+1A95", "U+1A96", "U+1A97", "U+1A98", "U+1A99">>,
      <<"U+1B50", "U+1B51", "U+1B52", "U+1B53", "U+1B54", "U+1B55", "U+1B56", "U+1B57", "U+1B58", "U+1B59">>,
      <<"U+1BB0", "U+1BB1", "U+1BB2", "U+1BB3", "U+1BB4", "U+1BB5", "U+1BB6", "U+1BB7", "U+1BB8", "U+1BB9">>,
      <<"U+1C40", "U+1C41", "U+1C42", "U+1C43", "U+1C44", "U+1C45", "U+1C46", "U+1C47", "U+1C48", "U+1C49">>,
      <<"U+1C50", "U+1C51", "U+1C52", "U+1C53", "U+1C54", "U+1C55", "U+1C56", "U+1C57", "U+1C58", "U+1C59">>,
      <<"U+A620", "U+A621", "U+A622", "U+A623", "U+A624", "U+A625", "U+A626", "U+A627", "U+A628", "U+A629">>,
      <<"U+A8D0", "U+A8D1", "U+A8D2", "U+A8D3", "U+A8D4", "U+A8D5", "U+A8D6", "U+A8D7", "U+A8D8", "U+A8D9">>,
      <<"U+A900", "U+A901", "U+A902", "U+A903", "U+A904", "U+A905", "U+A906", "U+A907", "U+A908", "U+A909">>,
      <<"U+A9D0", "U+A9D1", "U+A9D2", "U+A9D3", "U+A9D4", "U+A9D5", "U+A9D6", "U+A9D7", "U+A9D8", "U+A9D9">>,
      <<"U+A9F0", "U+A9F1", "U+A9F2", "U+A9F3", "U+A9F4", "U+A9F5", "U+A9F6", "U+A9F7", "U+A9F8", "U+A9F9">>,
      <<"U+AA50", "U+AA51", "U+AA52", "U+AA53", "U+AA54", "U+AA55", "U+AA56", "U+AA57", "U+AA58", "U+AA59">>,
      <<"U+ABF0", "U+ABF1", "U+ABF2", "U+ABF3", "U+ABF4", "U+ABF5", "U+ABF6", "U+ABF7", "U+ABF8", "U+ABF9">>,
      <<"U+FF10", "U+FF11", "U+FF12", "U+FF13", "U+FF14", "U+FF15", "U+FF16", "U+FF17", "U+FF18", "U+FF19">>,
      <<"U+104A0", "U+104A1", "U+104A2", "U+104A3", "U+104A4", "U+104A5", "U+104A6", "U+104A7", "U+104A8", "U+104A9">>,
      <<"U+10D30", "U+10D31", "U+10D32", "U+10D33", "U+10D34", "U+10D35", "U+10D36", "U+10D37", "U+10D38", "U+10D39">>,
      <<"U+11066", "U+11067", "U+11068", "U+11069", "U+1106A", "U+1106B", "U+1106C", "U+1106D", "U+1106E", "U+1106F">>,
      <<"U+110F0", "U+110F1", "U+110F2", "U+110F3", "U+110F4", "U+110F5", "U+110F6", "U+110F7", "U+110F8", "U+110F9">>,
      <<"U+11136", "U+11137", "U+11138", "U+11139", "U+1113A", "U+1113B", "U+1113C", "U+1113D", "U+1113E", "U+1113F">>,
      <<"U+111D0", "U+111D1", "U+111D2", "U+111D3", "U+111D4", "U+111D5", "U+111D6", "U+111D7", "U+111D8", "U+111D9">>,
      <<"U+112F0", "U+112F1", "U+112F2", "U+112F3", "U+112F4", "U+112F5", "U+112F6", "U+112F7", "U+112F8", "U+112F9">>,
      <<"U+11450", "U+11451", "U+11452", "U+11453", "U+11454", "U+11455", "U+11456", "U+11457", "U+11458", "U+11459">>,
      <<"U+114D0", "U+114D1", "U+114D2", "U+114D3", "U+114D4", "U+114D5", "U+114D6", "U+114D7", "U+114D8", "U+114D9">>,
      <<"U+11650", "U+11651", "U+11652", "U+11653", "U+11654", "U+11655", "U+11656", "U+11657", "U+11658", "U+11659">>,
      <<"U+116C0", "U+116C1", "U+116C2", "U+116C3", "U+116C4", "U+116C5", "U+116C6", "U+116C7", "U+116C8", "U+116C9">>,
      <<"U+11730", "U+11731", "U+11732", "U+11733", "U+11734", "U+11735", "U+11736", "U+11737", "U+11738", "U+11739">>,
      <<"U+118E0", "U+118E1", "U+118E2", "U+118E3", "U+118E4", "U+118E5", "U+118E6", "U+118E7", "U+118E8", "U+118E9">>,
      <<"U+11950", "U+11951", "U+11952", "U+11953", "U+11954", "U+11955", "U+11956", "U+11957", "U+11958", "U+11959">>,
      <<"U+11C50", "U+11C51", "U+11C52", "U+11C53", "U+11C54", "U+11C55", "U+11C56", "U+11C57", "U+11C58", "U+11C59">>,
      <<"U+11D50", "U+11D51", "U+11D52", "U+11D53", "U+11D54", "U+11D55", "U+11D56", "U+11D57", "U+11D58", "U+11D59">>,
      <<"U+11DA0", "U+11DA1", "U+11DA2", "U+11DA3", "U+11DA4", "U+11DA5", "U+11DA6", "U+11DA7", "U+11DA8", "U+11DA9">>,
      <<"U+16A60", "U+16A61", "U+16A62", "U+16A63", "U+16A64", "U+16A65", "U+16A66", "U+16A67", "U+16A68", "U+16A69">>,
      <<"U+16AC0", "U+16AC1", "U+16AC2", "U+16AC3", "U+16AC4", "U+16AC5", "U+16AC6", "U+16AC7", "U+16AC8", "U+16AC9">>,
      <<"U+16B50", "U+16B51", "U+16B52", "U+16B53", "U+16B54", "U+16B55", "U+16B56", "U+16B57", "U+16B58", "U+16B59">>,
      <<"U+1D7CE", "U+1D7CF", "U+1D7D0", "U+1D7D1", "U+1D7D2", "U+1D7D3", "U+1D7D4", "U+1D7D5", "U+1D7D6", "U+1D7D7">>,
      <<"U+1D7D8", "U+1D7D9", "U+1D7DA", "U+1D7DB", "U+1D7DC", "U+1D7DD", "U+1D7DE", "U+1D7DF", "U+1D7E0", "U+1D7E1">>,
      <<"U+1D7E2", "U+1D7E3", "U+1D7E4", "U+1D7E5", "U+1D7E6", "U+1D7E7", "U+1D7E8", "U+1D7E9", "U+1D7EA", "U+1D7EB">>,
      <<"U+1D7EC", "U+1D7ED", "U+1D7EE", "U+1D7EF", "U+1D7F0", "U+1D7F1", "U+1D7F2", "U+1D7F3", "U+1D7F4", "U+1D7F5">>,
      <<"U+1D7F6", "U+1D7F7", "U+1D7F8", "U+1D7F9", "U+1D7FA", "U+1D7FB", "U+1D7FC", "U+1D7FD", "U+1D7FE", "U+1D7FF">>,
      <<"U+1E140", "U+1E141", "U+1E142", "U+1E143", "U+1E144", "U+1E145", "U+1E146", "U+1E147", "U+1E148", "U+1E149">>,
      <<"U+1E2F0", "U+1E2F1", "U+1E2F2", "U+1E2F3", "U+1E2F4", "U+1E2F5", "U+1E2F6", "U+1E2F7", "U+1E2F8", "U+1E2F9">>,
      <<"U+1E950", "U+1E951", "U+1E952", "U+1E953", "U+1E954", "U+1E955", "U+1E956", "U+1E957", "U+1E958", "U+1E959">>,
      <<"U+1FBF0", "U+1FBF1", "U+1FBF2", "U+1FBF3", "U+1FBF4", "U+1FBF5", "U+1FBF6", "U+1FBF7", "U+1FBF8", "U+1FBF9">> }

DecimalChars == {block[d] : block \in DecimalBlocks, d \in 1..10}

\* the digit-like characters, such as SUPERSCRIPT TWO, for which
\* str.isdigit() is true and int() raises
OtherDigitChars ==
    { "²", "³", "¹", "U+1369", "U+136A", "U+136B", "U+136C", "U+136D",
      "U+136E", "U+136F", "U+1370", "U+1371", "U+19DA", "U+2070", "U+2074", "U+2075",
      "U+2076", "U+2077", "U+2078", "U+2079", "U+2080", "U+2081", "U+2082", "U+2083",
      "U+2084", "U+2085", "U+2086", "U+2087", "U+2088", "U+2089", "U+2460", "U+2461",
      "U+2462", "U+2463", "U+2464", "U+2465", "U+2466", "U+2467", "U+2468", "U+2474",
      "U+2475", "U+2476", "U+2477", "U+2478", "U+2479", "U+247A", "U+247B", "U+247C",
      "U+2488", "U+2489", "U+248A", "U+248B", "U+248C", "U+248D", "U+248E", "U+248F",
      "U+2490", "U+24EA", "U+24F5", "U+24F6", "U+24F7", "U+24F8", "U+24F9", "U+24FA",
      "U+24FB", "U+24FC", "U+24FD", "U+24FF", "U+2776", "U+2777", "U+2778", "U+2779",
      "U+277A", "U+277B", "U+277C", "U+277D", "U+277E", "U+2780", "U+2781", "U+2782",
      "U+2783", "U+2784", "U+2785", "U+2786", "U+2787", "U+2788", "U+278A", "U+278B",
      "U+278C", "U+278D", "U+278E", "U+278F", "U+2790", "U+2791", "U+2792", "U+10A40",
      "U+10A41", "U+10A42", "U+10A43", "U+10E60", "U+10E61", "U+10E62", "U+10E63", "U+10E64",
      "U+10E65", "U+10E66", "U+10E67", "U+10E68", "U+11052", "U+11053", "U+11054", "U+11055",
      "U+11056", "U+11057", "U+11058", "U+11059", "U+1105A", "U+1F100", "U+1F101", "U+1F102",
      "U+1F103", "U+1F104", "U+1F105", "U+1F106", "U+1F107", "U+1F108", "U+1F109", "U+1F10A" }

\* characters for which str.isdigit() is true
DigitChars == DecimalChars \cup OtherDigitChars

IsDigitChar(c) == c \in DigitChars

DigitVal(c) ==
    (CHOOSE d \in 1..10 : \E block \in DecimalBlocks : block[d] = c) - 1

DigitChar(d) == <<"0", "1", "2", "3", "4", "5", "6", "7", "8", "9">>[d + 1]

\* the float NaN that pandas puts in an empty custom_label cell (one symbol
\* that is no character, so that no string equals it)
NaN == <<"float('nan')">>

\* str(label)
Str(label) == IF label = NaN THEN <<"n", "a", "n">> ELSE label

RECURSIVE LStrip(_)
LStrip(s) ==
    IF s # <<>> /\ Head(s) \in Whitespace THEN LStrip(Tail(s)) ELSE s

RECURSIVE RStrip(_)
RStrip(s) ==
    IF s # <<>> /\ s[Len(s)] \in Whitespace
    THEN RStrip(SubSeq(s, 1, Len(s) - 1)) ELSE s

\* str.strip()
Strip(s) == RStrip(LStrip(s))

\* str.isdigit()
IsDigit(s) == s # <<>> /\ \A k \in 1..Len(s) : IsDigitChar(s[k])

\* sys.int_info.default_max_str_digits: the most digits int() converts
max_str_digits == 4300

\* int(s) raises ValueError on a digit-like character that is not decimal
\* and on more than max_str_digits digits
IntRaises(s) ==
    \/ \E k \in 1..Len(s) : s[k] \notin DecimalChars
    \/ Len(s) > max_str_digits

RECURSIVE ToInt(_)
ToInt(s) ==
    IF s = <<>> THEN 0
    ELSE 10 * ToInt(SubSeq(s, 1, Len(s) - 1)) + DigitVal(s[Len(s)])

\* f"{q}" of a non-negative int
RECURSIVE IntToStr(_)
IntToStr(q) ==
    IF q < 10 THEN <<DigitChar(q)>>
    ELSE IntToStr(q \div 10) \o <<DigitChar(q % 10)>>

\* re.search(r'^\[.*?\]/\[.*?\]\s*(.*)$', s). '.' takes no newline, and '$'
\* is the end of s or the place before a newline that ends s.
NoNewline(s) == \A m \in 1..Len(s) : s[m] # "\n"

\* what \s*(.*)$ leaves in group 1 when it matches on s
Rest(s) ==
    LET t == LStrip(s)
    IN  IF t # <<>> /\ t[Len(t)] = "\n" THEN SubSeq(t, 1, Len(t) - 1) ELSE t

\* positions of a "]/[" that can close the first bracket
CloseFirst(s) ==
    {k \in 2..(Len(s) - 2) :
        /\ s[k] = "]" /\ s[k + 1] = "/" /\ s[k + 2] = "["
        /\ NoNewline(SubSeq(s, 2, k - 1))}

\* positions of a "]" that can close the second bracket, the first being
\* closed at k, with the rest of s matched by \s*(.*)$
CloseSecond(s, k) ==
    {j \in (k + 3)..Len(s) :
        /\ s[j] = "]"
        /\ NoNewline(SubSeq(s, k + 3, j - 1))
        /\ NoNewline(Rest(SubSeq(s, j + 1, Len(s))))}

Min(S) == CHOOSE x \in S : \A y \in S : x <= y

Matches(s) ==
    /\ s # <<>>
    /\ s[1] = "["
    /\ \E k \in CloseFirst(s) : CloseSecond(s, k) # {}

\* match.group(1): the lazy brackets stop at the first closers that let the
\* whole pattern match, \s* takes the whitespace that follows and (.*) the
\* rest
Group1(s) ==
    LET k == Min({c \in CloseFirst(s) : CloseSecond(s, c) # {}})
        j == Min(CloseSecond(s, k))
    IN  Rest(SubSeq(s, j + 1, Len(s)))

\* length of the match of \s*,\s* at the head of s, 0 if it does not match
SepLen(s) ==
    LET a == Len(s) - Len(LStrip(s))
        rest == SubSeq(s, a + 1, Len(s))
    IN  IF rest # <<>> /\ Head(rest) = ","
        THEN a + 1 + (Len(Tail(rest)) - Len(LStrip(Tail(rest))))
        ELSE 0

\* re.split(r'\s*,\s*', s), cur being the part under construction
RECURSIVE SplitFrom(_, _)
SplitFrom(s, cur) ==
    IF s = <<>> THEN <<cur>>
    ELSE IF SepLen(s) > 0
         THEN <<cur>> \o SplitFrom(SubSeq(s, SepLen(s) + 1, Len(s)), <<>>)
         ELSE SplitFrom(Tail(s), Append(cur, Head(s)))

Split(s) == SplitFrom(s, <<>>)

\* '*' in part
HasStar(part) == \E k \in 1..Len(part) : part[k] = "*"

\* part.rsplit('*', 1)
LastStar(part) == CHOOSE k \in 1..Len(part) :
    part[k] = "*" /\ \A m \in (k + 1)..Len(part) : part[m] # "*"

RSplitStar(part) ==
    LET k == LastStar(part)
    IN  <<SubSeq(part, 1, k - 1), SubSeq(part, k + 1, Len(part))>>

----------------------------------------------------------------------------
(* parse_label *)

NoOrders == [exc |-> "none", val |-> <<>>]
ValueError == [exc |-> "ValueError", val |-> <<>>]

\* the for loop over parts; orders is the list built so far
RECURSIVE ParseParts(_, _)
ParseParts(parts, orders) ==
    IF parts = <<>> THEN [exc |-> "none", val |-> orders]
    ELSE LET part == Head(parts)
         IN  IF part = <<>> \/ ~HasStar(part) THEN NoOrders
             ELSE LET barcode == Strip(RSplitStar(part)[1])
                      qty_str == Strip(RSplitStar(part)[2])
                  IN  IF ~IsDigit(qty_str) THEN NoOrders
                      ELSE IF IntRaises(qty_str) THEN ValueError
                      ELSE ParseParts(Tail(parts),
                                      Append(orders, <<barcode, ToInt(qty_str)>>))

parse_label(label) ==
    LET s == Strip(Str(label))
    IN  IF ~Matches(s) THEN NoOrders
        ELSE LET content == Strip(Group1(s))
             IN  IF content = <<>> THEN NoOrders
                 ELSE ParseParts(Split(content), <<>>)

----------------------------------------------------------------------------
(* JSON values and int() *)

\* JSON values with their Python type
None == [type |-> "NoneType"]
JStr(s) == [type |-> "str", str |-> s]
JBool(b) == [type |-> "bool", bool |-> b]
JList(l) == [type |-> "list", list |-> l]
JDict(d) == [type |-> "dict", dict |-> d]
JInt(n) == [type |-> "int", int |-> n]

\* a float by its integral part, rounded towards zero, and the digits of
\* its fraction; NaN and Infinity, which json.load reads too
JFloat(whole, frac) ==
    [type |-> "float", whole |-> whole, frac |-> frac, special |-> "none"]
JNaN == [type |-> "float", whole |-> 0, frac |-> <<>>, special |-> "nan"]
JInfinity == [type |-> "float", whole |-> 0, frac |-> <<>>, special |-> "inf"]

Returns(n) == [exc |-> "none", val |-> n]
Raises(exc) == [exc |-> exc, val |-> 0]

\* the whitespace that int() removes around a string: that of str.strip()
\* without the four separators U+001C to U+001F
IntWhitespace == Whitespace \ {"U+001C", "U+001D", "U+001E", "U+001F"}

RECURSIVE IntLStrip(_)
IntLStrip(s) ==
    IF s # <<>> /\ Head(s) \in IntWhitespace THEN IntLStrip(Tail(s)) ELSE s

RECURSIVE IntRStrip(_)
IntRStrip(s) ==
    IF s # <<>> /\ s[Len(s)] \in IntWhitespace
    THEN IntRStrip(SubSeq(s, 1, Len(s) - 1)) ELSE s

\* int(s) of a string: whitespace around, a sign, decimal digits with single
\* underscores between them, at most max_str_digits digits
IntOfStr(s) ==
    LET t == IntRStrip(IntLStrip(s))
        signed == t # <<>> /\ t[1] \in {"+", "-"}
        body == IF signed THEN Tail(t) ELSE t
        wellformed ==
            /\ body # <<>>
            /\ \A k \in 1..Len(body) :
                  \/ body[k] \in DecimalChars
                  \/ /\ body[k] = "_"
                     /\ 1 < k /\ k < Len(body)
                     /\ body[k - 1] \in DecimalChars
                     /\ body[k + 1] \in DecimalChars
        digits == SelectSeq(body, LAMBDA c : c # "_")
    IN  IF ~wellformed \/ Len(digits) > max_str_digits
        THEN Raises("ValueError")
        ELSE IF signed /\ t[1] = "-" THEN Returns(0 - ToInt(digits))
        ELSE Returns(ToInt(digits))

\* int(v) of a JSON value
int(v) ==
    CASE v.type = "int" -> Returns(v.int)
      [] v.type = "bool" -> Returns(IF v.bool THEN 1 ELSE 0)
      [] v.type = "float" ->
            IF v.special = "nan" THEN Raises("ValueError")
            ELSE IF v.special = "inf" THEN Raises("OverflowError")
            ELSE Returns(v.whole)
      [] v.type = "str" -> IntOfStr(v.str)
      [] v.type \in {"NoneType", "list", "dict"} -> Raises("TypeError")

----------------------------------------------------------------------------
(* Inputs: the inventory snapshot and the order batch *)

SKU_A == <<"S", "K", "U", "-", "A">>
SKU_B == <<"S", "K", "U", "-", "B">>
UNKNOWN == <<"U", "N", "K", "N", "O", "W", "N">>

\* records of full_items.json; a field may be absent, a quantity may be null
InventoryRecords ==
    { [barcode |-> <<"1">>, quantity |-> JInt(5), sku |-> SKU_A],
      [barcode |-> <<"2">>, quantity |-> JInt(3)],
      [barcode |-> <<"A">>, quantity |-> JInt(5), sku |-> <<>>],
      [quantity |-> JInt(4), sku |-> SKU_B],
      [barcode |-> <<"1", "1", "1", "2", "2", "2">>, quantity |-> JInt(10),
       sku |-> SKU_A],
      [barcode |-> <<"2">>, quantity |-> None, sku |-> SKU_B] }

\* the snapshots: up to MaxRecords records, none listed twice
Snapshots ==
    UNION { {snapshot \in [1..n -> InventoryRecords] :
                \A a, b \in 1..n : a # b => snapshot[a] # snapshot[b]} :
            n \in 0..MaxRecords }

\* records of any shape: a barcode listed more than once, an empty barcode,
\* absent fields, a quantity that is a string, a float or null
AnyRecords ==
    { [barcode |-> <<"1">>, quantity |-> JInt(5), sku |-> SKU_A],
      [barcode |-> <<"1">>, quantity |-> JInt(2), sku |-> SKU_B],
      [barcode |-> <<"1">>],
      [barcode |-> <<"2">>, quantity |-> JInt(3)],
      [barcode |-> <<>>, quantity |-> JInt(7), sku |-> SKU_A],
      [quantity |-> JInt(4), sku |-> SKU_B],
      [barcode |-> <<"2">>, quantity |-> JStr(<<" ", "+", "1", "_", "7", "\n">>)],
      [barcode |-> <<"2">>, quantity |-> JFloat(2, <<"5">>), sku |-> SKU_B],
      [barcode |-> <<"1">>, quantity |-> None, sku |-> SKU_A],
      [quantity |-> JStr(<<"a", "b", "c">>)],
      [barcode |-> <<"2">>, quantity |-> JStr(<<"U+001C", "5">>)] }

\* the snapshots of up to MaxAnyRecords such records
AnySnapshots == UNION {[1..n -> AnyRecords] : n \in 0..MaxAnyRecords}

Prefix == <<"[", "a", "]", "/", "[", "b", "]", " ">>

\* values of the custom_label column
OrderLabels ==
    { Prefix \o <<"1", "*", "3">>,
      Prefix \o <<"1", "*", "3", ",", " ", "1", "*", "3">>,
      Prefix \o <<"1", "*", "3", ",", " ", "2", "*", "4">>,
      Prefix \o <<"2", " ", "*", " ", "0", "3", " ", ",", "1", "*", "1">>,
      Prefix \o <<"1", "1", "1", "2", "2", "2", "*", "4">>,
      Prefix \o <<"A", "*", "3">>,
      Prefix \o <<"1", "*", "3", ",", " ", "A", "*", "2">>,
      Prefix \o <<"*", "2">>,
      Prefix \o <<"1", "*", "2", ",", " ", "2">>,
      Prefix \o <<"1", "*", "3", ",", " ", "2", "*", "x">>,
      Prefix \o <<"1", "*", "²">>,
      Prefix \o <<"²", "*", "1">>,
      <<"[", "a", "]", "/", "[", "b", "]">>,
      NaN }

\* the rows of a batch carry their position in an order_id column
Batches ==
    { [k \in 1..Len(f) |-> [order_id |-> k, custom_label |-> f[k]]] :
        f \in UNION {[1..m -> OrderLabels] : m \in 0..MaxRows} }
\* a label whose quantity is the digit 0
ZeroQtyLabel == Prefix \o <<"1", "*", "0">>

\* a label with a tab after the brackets and a quantity written with
\* ARABIC-INDIC DIGIT THREE
TabLabel == <<"[", "a", "]", "/", "[", "b", "]", "\t", "1", "*", "U+0663">>

\* a label whose cell holds a line break
NewlineLabel == Prefix \o <<"1", "*", "3", ",", "\n", "2", "*", "1">>

AnyLabels == OrderLabels \cup {ZeroQtyLabel, TabLabel, NewlineLabel}

\* a value of a sku_qty column that the input file already has
OldSkuQty == <<"o", "l", "d">>

\* batches whose file may already have a sku_qty column
AnyBatches ==
    { [k \in 1..Len(f) |->
          IF c THEN [order_id |-> k, custom_label |-> f[k], sku_qty |-> OldSkuQty]
          ELSE [order_id |-> k, custom_label |-> f[k]]] :
        f \in UNION {[1..m -> AnyLabels] : m \in 0..MaxRows}, c \in BOOLEAN }

----------------------------------------------------------------------------
(* fetch_all_items: the responses of the server and what the loop reads *)

\* the truth value Python gives a value
Truthy(v) ==
    CASE v.type = "NoneType" -> FALSE
      [] v.type = "bool" -> v.bool
      [] v.type = "str" -> v.str # <<>>
      [] v.type = "int" -> v.int # 0
      [] v.type = "float" ->
            \/ v.special # "none"
            \/ v.whole # 0
            \/ \E k \in 1..Len(v.frac) : v.frac[k] # "0"
      [] v.type = "list" -> v.list # <<>>
      [] v.type = "dict" -> DOMAIN v.dict # {}

\* the default value of the limit parameter
limit == 100

\* the key names tried in turn
ItemsKeys == <<"items", "data", "results", "item_list">>
HasMoreKeys == <<"has_more", "hasNext", "more", "has_next_page">>
CursorKeys ==
    <<"cursor", "next_cursor", "next", "pagination_cursor", "nextPageCursor">>

\* the first position of a non-empty set of positions
First(S) == CHOOSE k \in S : \A j \in S : k <= j

\* items: the list under the first key that holds a list, else []
page_items(data) ==
    LET hits == {k \in 1..Len(ItemsKeys) :
                    /\ ItemsKeys[k] \in DOMAIN data
                    /\ data[ItemsKeys[k]].type = "list"}
    IN  IF hits = {} THEN <<>> ELSE data[ItemsKeys[First(hits)]].list

\* has_more: bool() of the first key present, else False
has_more(data) ==
    LET hits == {k \in 1..Len(HasMoreKeys) : HasMoreKeys[k] \in DOMAIN data}
    IN  IF hits = {} THEN FALSE ELSE Truthy(data[HasMoreKeys[First(hits)]])

\* next_cursor: the first value that is present and truthy, else None
next_cursor(data) ==
    LET hits == {k \in 1..Len(CursorKeys) :
                    /\ CursorKeys[k] \in DOMAIN data
                    /\ Truthy(data[CursorKeys[k]])}
    IN  IF hits = {} THEN None ELSE data[CursorKeys[First(hits)]]

\* what requests.get gives: an exception, or a status code and a body
RequestException == [kind |-> "RequestException", status_code |-> 0, json |-> None]
Response(status_code, json) ==
    [kind |-> "Response", status_code |-> status_code, json |-> json]

Item1 == [barcode |-> <<"1">>, quantity |-> JInt(5), sku |-> SKU_A]
Item2 == [barcode |-> <<"2">>, quantity |-> JInt(3)]
ItemNoBarcode == [quantity |-> JInt(4), sku |-> SKU_B]

\* bodies that announce a further page
MorePages ==
    { JDict([items |-> JList(<<Item1>>), has_more |-> JBool(TRUE),
             cursor |-> JStr(<<"c", "1">>)]),
      JDict([items |-> None, data |-> JList(<<Item2>>),
             hasNext |-> JBool(TRUE), cursor |-> JStr(<<>>),
             next_cursor |-> JStr(<<"c", "2">>)]),
      JDict([results |-> JList(<<Item2>>), more |-> JInt(1),
             next |-> JInt(12345)]) }

\* bodies that end the pagination
LastPages ==
    { JDict([items |-> JList(<<Item1>>), has_more |-> JBool(FALSE),
             cursor |-> JStr(<<"c", "1">>)]),
      JDict([items |-> JList(<<ItemNoBarcode>>), cursor |-> JStr(<<"c", "2">>)]),
      JDict([items |-> JList(<<>>), has_more |-> JBool(TRUE),
             cursor |-> JStr(<<>>)]),
      JDict([results |-> JList(<<Item2>>), more |-> JBool(TRUE),
             next |-> None]),
      JDict([items |-> JList(<<Item1>>), has_more |-> JFloat(0, <<"0">>),
             cursor |-> JInt(7)]) }

\* a body that is a JSON array
ListBodies == { JList(<<Item1>>) }

\* the behaviours of the server on one request
Responses ==
    {RequestException, Response(500, None)}
        \cup {Response(200, body) : body \in MorePages \cup LastPages \cup ListBodies}

\* return values of fetch_all_items, and the state before it returns
NotReturned == [type |-> "not returned"]
ReturnNone == None

\* full_items.json as this run left it
NotWritten == [written |-> FALSE, content |-> <<>>]
Written(content) == [written |-> TRUE, content |-> content]

----------------------------------------------------------------------------
(* process_orders *)

\* dict.get(key, default), Series.get(key, default)
Get(d, key, default) == IF key \in DOMAIN d THEN d[key] ELSE default

\* d[key] = value
Put(d, key, value) ==
    [k \in DOMAIN d \cup {key} |-> IF k = key THEN value ELSE d[k]]

\* the truth value of item.get('barcode'): None and '' are falsy
HasBarcode(item) == Get(item, "barcode", <<>>) # <<>>

\* a loop without the test `if bc`: every record makes an entry
build_stock_unfiltered(its, st) ==
    [b \in {Get(its[n], "barcode", <<>>) : n \in 1..Len(its)} |->
        LET last == CHOOSE n \in 1..Len(its) :
                        /\ Get(its[n], "barcode", <<>>) = b
                        /\ \A m \in (n + 1)..Len(its) :
                              Get(its[m], "barcode", <<>>) # b
        IN  int(Get(its[last], "quantity", JInt(0))).val]

\* the items on which int() of line 145 raises
int_raises(item) ==
    HasBarcode(item) /\ int(Get(item, "quantity", JInt(0))).exc # "none"

\* the items that the loop of line 142 goes through: all of them, or those
\* before the first on which int() raises
Iterated(its) ==
    LET raising == {n \in 1..Len(its) : int_raises(its[n])}
    IN  IF raising = {} THEN its ELSE SubSeq(its, 1, Min(raising) - 1)

\* the loop that fills stock from the items
RECURSIVE build_stock(_, _)
build_stock(its, st) ==
    IF its = <<>> THEN st
    ELSE build_stock(Tail(its),
            IF HasBarcode(Head(its))
            THEN Put(st, Head(its).barcode,
                     int(Get(Head(its), "quantity", JInt(0))).val)
            ELSE st)

\* the loop that fills sku_dict from the items
RECURSIVE build_sku_dict(_, _)
build_sku_dict(its, sd) ==
    IF its = <<>> THEN sd
    ELSE build_sku_dict(Tail(its),
            IF HasBarcode(Head(its))
            THEN Put(sd, Head(its).barcode, Get(Head(its), "sku", <<>>))
            ELSE sd)

\* any(not bc or not bc[0].isdigit() for bc, _ in orders)
is_misc(orders) ==
    \E k \in 1..Len(orders) :
        orders[k][1] = <<>> \/ ~IsDigitChar(orders[k][1][1])

\* any() in place of all()
can_fulfill_any(orders, st) ==
    \E k \in 1..Len(orders) :
        orders[k][1] \in DOMAIN st /\ st[orders[k][1]] >= orders[k][2]

\* all(bc in stock and stock[bc] >= q for bc, q in orders)
can_fulfill(orders, st) ==
    \A k \in 1..Len(orders) :
        orders[k][1] \in DOMAIN st /\ st[orders[k][1]] >= orders[k][2]

\* a decrement loop that stops after the first order
decrease_stock_first_only(st, orders) ==
    IF orders = <<>> THEN st
    ELSE [st EXCEPT ![Head(orders)[1]] = @ - Head(orders)[2]]

\* for bc, q in orders: stock[bc] -= q
RECURSIVE decrease_stock(_, _)
decrease_stock(st, orders) ==
    IF orders = <<>> THEN st
    ELSE decrease_stock(
            [st EXCEPT ![Head(orders)[1]] = @ - Head(orders)[2]],
            Tail(orders))

\* f"{sku}*{q}" for each order, joined by ', '
RECURSIVE sku_qty_str(_, _)
sku_qty_str(orders, sd) ==
    IF orders = <<>> THEN <<>>
    ELSE LET sku == Get(sd, Head(orders)[1], UNKNOWN)
             part == sku \o <<"*">> \o IntToStr(Head(orders)[2])
         IN  IF Len(orders) = 1 THEN part
             ELSE part \o <<",", " ">> \o sku_qty_str(Tail(orders), sd)

\* a new row that keeps only the order id next to sku_qty
with_sku_qty_only(row, s) == [order_id |-> row.order_id, sku_qty |-> s]

\* new_row = row.copy(); new_row['sku_qty'] = sku_qty_str
with_sku_qty(row, s) ==
    [order_id |-> row.order_id, custom_label |-> row.custom_label, sku_qty |-> s]

\* df.columns, in the order of the file
ColumnNames == <<"order_id", "custom_label", "sku_qty">>
columns(row) == SelectSeq(ColumnNames, LAMBDA c : c \in DOMAIN row)

\* the columns of fulfillable_df: list(df.columns) + ['sku_qty']
fulfillable_columns(row) == columns(row) \o <<"sku_qty">>

\* pd.concat raises InvalidIndexError when the column labels of the frame
\* are not unique (the row has each label once, so the two differ)
concat_raises(frame_columns) ==
    \E a, b \in 1..Len(frame_columns) :
        a # b /\ frame_columns[a] = frame_columns[b]

\* a concat whose result is not kept
concat_discarded(frame, row) == frame

\* a concat with the new row first
concat_prepended(frame, row) == <<row>> \o frame

\* pd.concat([frame, row.to_frame().T], ignore_index=True)
concat(frame, row) == Append(frame, row)

\* orders = parse_label(label), tabulated over the labels of the batches
parse_label_of == [label \in AnyLabels \cup {<<>>} |-> parse_label(label)]

\* a fulfillability check that reads stock[bc] without testing bc in stock:
\* the KeyError of a missing barcode goes to the except clause
PathKeyError(label, st) ==
    LET r == parse_label_of[label]
    IN  IF r.exc # "none" THEN "except"
        ELSE IF r.val = <<>> THEN "parse_empty"
        ELSE IF is_misc(r.val) THEN "is_misc"
        ELSE IF \E k \in 1..Len(r.val) : r.val[k][1] \notin DOMAIN st
             THEN "except"
        ELSE IF can_fulfill(r.val, st) THEN "fulfillable"
        ELSE "unfulfillable"

\* the branch of the loop body taken by a row, given the current ledger
Path(label, st) ==
    LET r == parse_label_of[label]
    IN  IF r.exc # "none" THEN "except"
        ELSE IF r.val = <<>> THEN "parse_empty"
        ELSE IF is_misc(r.val) THEN "is_misc"
        ELSE IF can_fulfill(r.val, st) THEN "fulfillable"
        ELSE "unfulfillable"

\* an except clause that does not emit the row
MiscPathsWithoutHandler == {"parse_empty", "is_misc"}

\* the branches that end in misc_df = pd.concat([misc_df, ...])
MiscPaths == {"parse_empty", "is_misc", "except", "except_concat"}

Msg(text) == [text |-> text, counts |-> <<>>]

\* the locals of fetch_all_items at its entry; nothing fetched or written
FetchEntry ==
    /\ cursor = None
    /\ params = [limit |-> limit]
    /\ page = 1
    /\ all_items = <<>>
    /\ requests = <<>>
    /\ responses = <<>>
    /\ fetched = NotReturned
    /\ full_items_json = NotWritten

\* process_orders called on the files that are there
Init ==
    /\ pc = "start"
    /\ FetchEntry
    /\ items_exists \in BOOLEAN
    /\ labels_exists \in BOOLEAN
    /\ items = <<>>
    /\ stock = <<>>
    /\ sku_dict = <<>>
    /\ df = <<>>
    /\ i = 0
    /\ fulfillable_df = <<>>
    /\ unfulfillable_df = <<>>
    /\ misc_df = <<>>
    /\ written = {}
    /\ printed = <<>>
    /\ log = <<>>

\* full_items.json does not exist
NoItemsFile ==
    /\ pc = "start"
    /\ ~items_exists
    /\ printed' = Append(printed, Msg("items file not found"))
    /\ pc' = "returned"
    /\ UNCHANGED <<items_exists, labels_exists, items, stock, sku_dict, df, i,
                   fulfillable_df, unfulfillable_df, misc_df, written, log>>
    /\ UNCHANGED fetch_vars

\* what json.load can find in full_items.json: what this run wrote there,
\* else any snapshot
FileContents ==
    IF full_items_json.written THEN {full_items_json.content} ELSE Snapshots

\* json.load and the construction of stock and sku_dict
LoadInventory ==
    /\ pc = "start"
    /\ items_exists
    /\ \E snapshot \in FileContents :
          /\ items' = snapshot
          /\ stock' = build_stock(Iterated(snapshot), <<>>)
          /\ sku_dict' = build_sku_dict(Iterated(snapshot), <<>>)
          /\ pc' = IF Len(Iterated(snapshot)) < Len(snapshot)
                   THEN "raised" ELSE "loaded"
    /\ UNCHANGED <<items_exists, labels_exists, df, i, fulfillable_df,
                   unfulfillable_df, misc_df, written, printed, log>>
    /\ UNCHANGED fetch_vars

\* an empty ledger reported without the return
NoValidBarcodesNoReturn ==
    /\ pc = "loaded"
    /\ stock = <<>>
    /\ printed' = Append(printed, Msg("no valid barcodes"))
    /\ \E batch \in Batches : df' = batch
    /\ pc' = "loop"
    /\ UNCHANGED <<items_exists, labels_exists, items, stock, sku_dict, i,
                   fulfillable_df, unfulfillable_df, misc_df, written, log>>
    /\ UNCHANGED fetch_vars

\* if not stock: return
NoValidBarcodes ==
    /\ pc = "loaded"
    /\ stock = <<>>
    /\ printed' = Append(printed, Msg("no valid barcodes"))
    /\ pc' = "returned"
    /\ UNCHANGED <<items_exists, labels_exists, items, stock, sku_dict, df, i,
                   fulfillable_df, unfulfillable_df, misc_df, written, log>>
    /\ UNCHANGED fetch_vars

\* merged_labels.csv does not exist
NoLabelsFile ==
    /\ pc = "loaded"
    /\ stock # <<>>
    /\ ~labels_exists
    /\ printed' = Append(printed, Msg("labels file not found"))
    /\ pc' = "returned"
    /\ UNCHANGED <<items_exists, labels_exists, items, stock, sku_dict, df, i,
                   fulfillable_df, unfulfillable_df, misc_df, written, log>>
    /\ UNCHANGED fetch_vars

\* pd.read_csv and the three empty output frames
ReadCsv ==
    /\ pc = "loaded"
    /\ stock # <<>>
    /\ labels_exists
    /\ \E batch \in Batches : df' = batch
    /\ pc' = "loop"
    /\ UNCHANGED <<items_exists, labels_exists, items, stock, sku_dict, i,
                   fulfillable_df, unfulfillable_df, misc_df, written, printed,
                   log>>
    /\ UNCHANGED fetch_vars

\* one iteration of the loop over df.iterrows()
ProcessRow ==
    /\ pc = "loop"
    /\ i < Len(df)
    /\ LET row == df[i + 1]
           label == Get(row, "custom_label", <<>>)
           branch == Path(label, stock)
           path == IF /\ branch = "fulfillable"
                      /\ concat_raises(fulfillable_columns(row))
                   THEN "except_concat" ELSE branch
           orders == parse_label_of[label].val
       IN  \E taken \in {path} :
           /\ stock' = IF taken \in {"fulfillable", "except_concat"}
                       THEN decrease_stock(stock, orders) ELSE stock
           /\ fulfillable_df' =
                 IF taken = "fulfillable"
                 THEN concat(fulfillable_df,
                             with_sku_qty(row, sku_qty_str(orders, sku_dict)))
                 ELSE fulfillable_df
           /\ unfulfillable_df' =
                 IF taken = "unfulfillable"
                 THEN concat(unfulfillable_df, row) ELSE unfulfillable_df
           /\ misc_df' =
                 IF taken \in MiscPaths THEN concat(misc_df, row) ELSE misc_df
           /\ printed' =
                 IF taken \in {"except", "except_concat"}
                 THEN Append(printed, Msg("error processing row")) ELSE printed
           /\ log' = Append(log, [path |-> taken,
                                  parsed |-> parse_label_of[label],
                                  before |-> stock])
    /\ i' = i + 1
    /\ UNCHANGED <<pc, items_exists, labels_exists, items, sku_dict, df, written>>
    /\ UNCHANGED fetch_vars

\* the three to_csv calls and the summary
SaveResults ==
    /\ pc = "loop"
    /\ i = Len(df)
    /\ written' = {"fulfillable.csv", "unfulfillable.csv", "misc.csv"}
    /\ printed' = Append(printed,
                    [text |-> "processing complete",
                     counts |-> <<Len(fulfillable_df), Len(unfulfillable_df),
                                  Len(misc_df)>>])
    /\ pc' = "done"
    /\ UNCHANGED <<items_exists, labels_exists, items, stock, sku_dict, df, i,
                   fulfillable_df, unfulfillable_df, misc_df, log>>
    /\ UNCHANGED fetch_vars

\* pd.read_csv of a file of any shape
ReadAnyCsv ==
    /\ pc = "loaded"
    /\ stock # <<>>
    /\ labels_exists
    /\ \E batch \in AnyBatches : df' = batch
    /\ pc' = "loop"
    /\ UNCHANGED <<items_exists, labels_exists, items, stock, sku_dict, i,
                   fulfillable_df, unfulfillable_df, misc_df, written, printed,
                   log>>
    /\ UNCHANGED fetch_vars

Next ==
    \/ NoItemsFile
    \/ LoadInventory
    \/ NoValidBarcodes
    \/ NoLabelsFile
    \/ ReadCsv
    \/ ProcessRow
    \/ SaveResults

Spec == Init /\ [][Next]_vars

\* the program is sequential and runs every enabled step
FairSpec == Spec /\ WF_vars(Next)

\* json.load of a snapshot of any shape and the construction of stock and
\* sku_dict
LoadAnyInventory ==
    /\ pc = "start"
    /\ items_exists
    /\ \E snapshot \in AnySnapshots :
          /\ items' = snapshot
          /\ stock' = build_stock(Iterated(snapshot), <<>>)
          /\ sku_dict' = build_sku_dict(Iterated(snapshot), <<>>)
          /\ pc' = IF Len(Iterated(snapshot)) < Len(snapshot)
                   THEN "raised" ELSE "loaded"
    /\ UNCHANGED <<items_exists, labels_exists, df, i, fulfillable_df,
                   unfulfillable_df, misc_df, written, printed, log>>
    /\ UNCHANGED fetch_vars

\* process_orders up to the test of the ledger, on a snapshot of any shape
LedgerNext ==
    \/ NoItemsFile
    \/ LoadAnyInventory
    \/ NoValidBarcodes

LedgerSpec == Init /\ [][LedgerNext]_vars

\* process_orders on a batch of any shape
AnyBatchNext ==
    \/ NoItemsFile
    \/ LoadInventory
    \/ NoValidBarcodes
    \/ NoLabelsFile
    \/ ReadAnyCsv
    \/ ProcessRow
    \/ SaveResults

AnyBatchSpec == Init /\ [][AnyBatchNext]_vars

----------------------------------------------------------------------------
(* fetch_all_items and the main block *)

\* the state of process_orders
process_vars == <<items, stock, sku_dict, df, i, fulfillable_df,
                  unfulfillable_df, misc_df, written, log>>

\* the program started as a script: fetch_all_items is entered
MainInit ==
    /\ pc = "fetch"
    /\ FetchEntry
    /\ items_exists \in BOOLEAN
    /\ labels_exists \in BOOLEAN
    /\ items = <<>>
    /\ stock = <<>>
    /\ sku_dict = <<>>
    /\ df = <<>>
    /\ i = 0
    /\ fulfillable_df = <<>>
    /\ unfulfillable_df = <<>>
    /\ misc_df = <<>>
    /\ written = {}
    /\ printed = <<>>
    /\ log = <<>>

\* the top of the loop: params["cursor"] is set and requests.get is called
SendRequest ==
    /\ pc = "fetch"
    /\ params' = IF cursor # None THEN Put(params, "cursor", cursor) ELSE params
    /\ requests' = Append(requests, params')
    /\ pc' = "get"
    /\ UNCHANGED <<cursor, page, all_items, responses, fetched, full_items_json>>
    /\ UNCHANGED <<items_exists, labels_exists, printed>>
    /\ UNCHANGED process_vars

\* requests.get raises: except requests.RequestException: return None
RequestFailed ==
    /\ pc = "get"
    /\ responses' = Append(responses, RequestException)
    /\ fetched' = ReturnNone
    /\ pc' = "main"
    /\ UNCHANGED <<cursor, params, page, all_items, requests, full_items_json>>
    /\ UNCHANGED <<items_exists, labels_exists, printed>>
    /\ UNCHANGED process_vars

\* if resp.status_code != 200: return None
ErrorStatus ==
    /\ pc = "get"
    /\ \E resp \in Responses :
          /\ resp.kind = "Response"
          /\ resp.status_code # 200
          /\ responses' = Append(responses, resp)
    /\ fetched' = ReturnNone
    /\ pc' = "main"
    /\ UNCHANGED <<cursor, params, page, all_items, requests, full_items_json>>
    /\ UNCHANGED <<items_exists, labels_exists, printed>>
    /\ UNCHANGED process_vars

\* the body is a JSON array: data.keys() raises AttributeError, which no
\* except clause catches, and the program ends with a traceback
KeysOfList ==
    /\ pc = "get"
    /\ \E resp \in Responses :
          /\ resp.kind = "Response"
          /\ resp.status_code = 200
          /\ resp.json.type = "list"
          /\ responses' = Append(responses, resp)
    /\ pc' = "crashed"
    /\ UNCHANGED <<cursor, params, page, all_items, requests, fetched,
                   full_items_json>>
    /\ UNCHANGED <<items_exists, labels_exists, printed>>
    /\ UNCHANGED process_vars

\* a page whose items are dropped
ReceivePageNotKept ==
    /\ pc = "get"
    /\ \E resp \in Responses :
          /\ resp.kind = "Response"
          /\ resp.status_code = 200
          /\ resp.json.type = "dict"
          /\ LET data == resp.json.dict
                 more == has_more(data) /\ Truthy(next_cursor(data))
             IN  /\ more => page < MaxPages
                 /\ responses' = Append(responses, resp)
                 /\ all_items' = page_items(data)
                 /\ IF more
                    THEN /\ cursor' = next_cursor(data)
                         /\ page' = page + 1
                         /\ pc' = "fetch"
                    ELSE /\ UNCHANGED <<cursor, page>>
                         /\ pc' = "end"
    /\ UNCHANGED <<params, requests, fetched, full_items_json>>
    /\ UNCHANGED <<items_exists, labels_exists, printed>>
    /\ UNCHANGED process_vars

\* a 200 response with a JSON object: the items are collected and the loop
\* goes on with the next cursor or ends (the server ends the pagination by
\* page MaxPages)
ReceivePage ==
    /\ pc = "get"
    /\ \E resp \in Responses :
          /\ resp.kind = "Response"
          /\ resp.status_code = 200
          /\ resp.json.type = "dict"
          /\ LET data == resp.json.dict
                 more == has_more(data) /\ Truthy(next_cursor(data))
             IN  /\ more => page < MaxPages
                 /\ responses' = Append(responses, resp)
                 /\ all_items' = all_items \o page_items(data)
                 /\ IF more
                    THEN /\ cursor' = next_cursor(data)
                         /\ page' = page + 1
                         /\ pc' = "fetch"
                    ELSE /\ UNCHANGED <<cursor, page>>
                         /\ pc' = "end"
    /\ UNCHANGED <<params, requests, fetched, full_items_json>>
    /\ UNCHANGED <<items_exists, labels_exists, printed>>
    /\ UNCHANGED process_vars

\* if all_items: json.dump to full_items.json; return all_items
SaveItems ==
    /\ pc = "end"
    /\ all_items # <<>>
    /\ full_items_json' = Written(all_items)
    /\ items_exists' = TRUE
    /\ fetched' = JList(all_items)
    /\ pc' = "main"
    /\ UNCHANGED <<cursor, params, page, all_items, requests, responses>>
    /\ UNCHANGED <<labels_exists, printed>>
    /\ UNCHANGED process_vars

\* else: print("No items were returned."); return None
NoItemsReturned ==
    /\ pc = "end"
    /\ all_items = <<>>
    /\ fetched' = ReturnNone
    /\ pc' = "main"
    /\ UNCHANGED <<cursor, params, page, all_items, requests, responses,
                   full_items_json>>
    /\ UNCHANGED <<items_exists, labels_exists, printed>>
    /\ UNCHANGED process_vars

\* the test of the main block
items_returned == fetched.type = "list" /\ Len(fetched.list) > 0

\* a main block that starts process_orders whatever the fetch returned
StartProcessingUnchecked ==
    /\ pc = "main"
    /\ pc' = "start"
    /\ UNCHANGED <<items_exists, labels_exists, printed>>
    /\ UNCHANGED process_vars
    /\ UNCHANGED fetch_vars

\* if items is not None and len(items) > 0: process_orders()
StartProcessing ==
    /\ pc = "main"
    /\ items_returned
    /\ pc' = "start"
    /\ UNCHANGED <<items_exists, labels_exists, printed>>
    /\ UNCHANGED process_vars
    /\ UNCHANGED fetch_vars

\* else: the processing is skipped
SkipProcessing ==
    /\ pc = "main"
    /\ ~items_returned
    /\ printed' = Append(printed, Msg("skipping processing"))
    /\ pc' = "skipped"
    /\ UNCHANGED <<items_exists, labels_exists>>
    /\ UNCHANGED process_vars
    /\ UNCHANGED fetch_vars

\* fetch_all_items called on its own
FetchNext ==
    \/ SendRequest
    \/ RequestFailed
    \/ ErrorStatus
    \/ KeysOfList
    \/ ReceivePage
    \/ SaveItems
    \/ NoItemsReturned

FetchSpec == MainInit /\ [][FetchNext]_vars

\* the call runs on: every request is answered or fails
FairFetchSpec == FetchSpec /\ WF_vars(FetchNext)

\* the program run as a script
MainNext ==
    \/ SendRequest
    \/ RequestFailed
    \/ ErrorStatus
    \/ KeysOfList
    \/ ReceivePage
    \/ SaveItems
    \/ NoItemsReturned
    \/ StartProcessing
    \/ SkipProcessing
    \/ LoadInventory
    \/ NoValidBarcodes
    \/ NoLabelsFile
    \/ ReadCsv
    \/ ProcessRow
    \/ SaveResults

MainSpec == MainInit /\ [][MainNext]_vars

----------------------------------------------------------------------------
(* Properties *)

\* the input rows (by order_id) found in an output frame
Ids(frame) == {frame[k].order_id : k \in 1..Len(frame)}

\* the ledger as left by row k
After(k) == IF k < Len(log) THEN log[k + 1].before ELSE stock

\* the line items parsed from row k (empty when parsing failed or raised)
Parsed(k) == log[k].parsed.val

\* item n of row k cannot be satisfied by the ledger row k starts from
Unsatisfiable(k, n) ==
    \/ Parsed(k)[n][1] \notin DOMAIN log[k].before
    \/ log[k].before[Parsed(k)[n][1]] < Parsed(k)[n][2]

\* C1: while the row loop runs and after it, the processed rows 1..i are
\* each in exactly one of the three output frames, no unprocessed row is in
\* any of them, and at the end all rows of the batch have been processed.
PartitionComplete ==
    pc \in {"loop", "done"} =>
        /\ Len(fulfillable_df) + Len(unfulfillable_df) + Len(misc_df) = i
        /\ Ids(fulfillable_df) \cup Ids(unfulfillable_df) \cup Ids(misc_df) = 1..i
        /\ Ids(fulfillable_df) \cap Ids(unfulfillable_df) = {}
        /\ Ids(fulfillable_df) \cap Ids(misc_df) = {}
        /\ Ids(unfulfillable_df) \cap Ids(misc_df) = {}
        /\ (pc = "done" => i = Len(df))

PartitionCompleteWitness ==
    /\ pc = "done"
    /\ Len(df) = 2
    /\ Len(fulfillable_df) = 1
    /\ Len(misc_df) = 1

\* C2: every ledger quantity stays >= 0 (the snapshots hold no negative
\* quantity).
LedgerNonNegative == \A b \in DOMAIN stock : stock[b] >= 0

\* C3 as stated: a row with an unsatisfiable line item is emitted to
\* Unfulfillable and leaves the ledger as it was.
AllOrNothingOriginal ==
    \A k \in 1..Len(log) :
        (\E n \in 1..Len(Parsed(k)) : Unsatisfiable(k, n)) =>
            /\ k \in Ids(unfulfillable_df)
            /\ After(k) = log[k].before

\* C3 amended: a row with an unsatisfiable line item leaves the ledger as it
\* was and is emitted to Unfulfillable, or to Misc when one of its barcodes is
\* empty or does not begin with a digit character.
AllOrNothing ==
    \A k \in 1..Len(log) :
        (\E n \in 1..Len(Parsed(k)) : Unsatisfiable(k, n)) =>
            /\ After(k) = log[k].before
            /\ IF \E n \in 1..Len(Parsed(k)) :
                     \/ Parsed(k)[n][1] = <<>>
                     \/ ~IsDigitChar(Parsed(k)[n][1][1])
               THEN k \in Ids(misc_df)
               ELSE k \in Ids(unfulfillable_df)

\* a two-item row, one item in stock and the other not, ended in Unfulfillable
AllOrNothingWitness ==
    \E k \in 1..Len(log) :
        /\ Len(Parsed(k)) = 2
        /\ ~Unsatisfiable(k, 1)
        /\ Unsatisfiable(k, 2)
        /\ Parsed(k)[2][1] \in DOMAIN log[k].before
        /\ k \in Ids(unfulfillable_df)

\* rows k and k+1 both ask for q of barcode b alone, and the ledger that row
\* k starts from holds s of b with q <= s < 2q
TwoRowsSameItem(k, b, q) ==
    /\ k + 1 <= Len(log)
    /\ Parsed(k) = <<<<b, q>>>>
    /\ Parsed(k + 1) = <<<<b, q>>>>
    /\ b \in DOMAIN log[k].before
    /\ q <= log[k].before[b]
    /\ log[k].before[b] < 2 * q

ItemsOf(k) == {<<Parsed(k)[n][1], Parsed(k)[n][2]>> : n \in 1..Len(Parsed(k))}

\* C4: the check of a row reads the ledger as the rows before it left it.
\* For a barcode b of the ledger that begins with a digit character (a row
\* with any other barcode goes to Misc before the check), the first of two
\* such rows is Fulfillable and leaves s - q, the second is Unfulfillable
\* and leaves the ledger as it found it. Fails on a file that has its own
\* sku_qty column: the first row is decremented and ends in Misc.
Greedy ==
    \A k \in 1..Len(log) : \A it \in ItemsOf(k) :
        (TwoRowsSameItem(k, it[1], it[2]) /\ IsDigitChar(it[1][1])) =>
            /\ k \in Ids(fulfillable_df)
            /\ k + 1 \in Ids(unfulfillable_df)
            /\ After(k)[it[1]] = log[k].before[it[1]] - it[2]
            /\ After(k + 1) = After(k)

\* the label of row k as parse_label sees it after str() and strip()
Stripped(k) == Strip(Str(Get(df[k], "custom_label", <<>>)))

\* one or more decimal digits
PurelyDecimal(s) == s # <<>> /\ \A n \in 1..Len(s) : s[n] \in DecimalChars

\* C5 as stated, checked on the code: a row that parses to line items of
\* which one has an empty barcode or a barcode not beginning with a decimal
\* digit takes the Misc branch before the fulfillability check and is in Misc.
MiscPrecedence ==
    \A k \in 1..Len(log) :
        (\E n \in 1..Len(Parsed(k)) :
            \/ Parsed(k)[n][1] = <<>>
            \/ Parsed(k)[n][1][1] \notin DecimalChars) =>
            /\ log[k].path = "is_misc"
            /\ k \in Ids(misc_df)
            /\ k \notin Ids(fulfillable_df) \cup Ids(unfulfillable_df)

\* the label of row k breaks the grammar: no prefix, empty content, a token
\* without '*', or a quantity part that is not purely decimal digits
BreaksGrammar(k) ==
    \/ ~Matches(Stripped(k))
    \/ Strip(Group1(Stripped(k))) = <<>>
    \/ \E n \in 1..Len(Split(Strip(Group1(Stripped(k))))) :
          LET token == Split(Strip(Group1(Stripped(k))))[n]
          IN  \/ ~HasStar(token)
              \/ ~PurelyDecimal(Strip(RSplitStar(token)[2]))

\* C6 as stated, checked on the code: for a label that breaks the grammar
\* parse_label returns the empty sequence and the row is in Misc.
ParseStrictness ==
    \A k \in 1..Len(log) :
        BreaksGrammar(k) =>
            /\ log[k].parsed = NoOrders
            /\ k \in Ids(misc_df)

\* the sku of the inventory record of barcode b (the last one in the file)
RecordOf(b) ==
    items[CHOOSE n \in 1..Len(items) :
            /\ Get(items[n], "barcode", <<>>) = b
            /\ \A m \in (n + 1)..Len(items) : Get(items[m], "barcode", <<>>) # b]

RECURSIVE JoinCommaSpace(_)
JoinCommaSpace(strs) ==
    IF strs = <<>> THEN <<>>
    ELSE IF Len(strs) = 1 THEN strs[1]
    ELSE strs[1] \o <<",", " ">> \o JoinCommaSpace(Tail(strs))

\* the total quantity of barcode b requested by row k
RECURSIVE RequestedFrom(_, _, _)
RequestedFrom(k, b, n) ==
    IF n > Len(Parsed(k)) THEN 0
    ELSE (IF Parsed(k)[n][1] = b THEN Parsed(k)[n][2] ELSE 0)
         + RequestedFrom(k, b, n + 1)

\* C7: a Fulfillable row k leaves every ledger quantity decreased by what the
\* row requested of that barcode, and carries as sku_qty the ", "-joined
\* "<sku>*<quantity>" of its line items in token order, the sku being that of
\* the inventory record of the barcode.
SkuAnnotationAndCommit ==
    \A p \in 1..Len(fulfillable_df) :
        LET k == fulfillable_df[p].order_id
        IN  /\ DOMAIN After(k) = DOMAIN log[k].before
            /\ \A b \in DOMAIN log[k].before :
                  After(k)[b] = log[k].before[b] - RequestedFrom(k, b, 1)
            /\ fulfillable_df[p].sku_qty =
                  JoinCommaSpace(
                    [n \in 1..Len(Parsed(k)) |->
                       Get(RecordOf(Parsed(k)[n][1]), "sku", <<>>)
                       \o <<"*">> \o IntToStr(Parsed(k)[n][2])])

\* ledger 111222 -> (10, SKU-A), label "[a]/[b] 111222*4": sku_qty "SKU-A*4"
\* and quantity 6
SkuAnnotationWitness ==
    /\ Len(fulfillable_df) = 1
    /\ fulfillable_df[1].custom_label =
          Prefix \o <<"1", "1", "1", "2", "2", "2", "*", "4">>
    /\ fulfillable_df[1].sku_qty = <<"S", "K", "U", "-", "A", "*", "4">>
    /\ log[fulfillable_df[1].order_id].before[<<"1", "1", "1", "2", "2", "2">>] = 10
    /\ stock[<<"1", "1", "1", "2", "2", "2">>] = 6

\* C8 as stated, checked on the code: in the sku_qty of a Fulfillable row a
\* line item whose inventory record has no sku field or an empty sku reads
\* "UNKNOWN*<quantity>".
UnknownPlaceholder ==
    \A p \in 1..Len(fulfillable_df) :
        LET k == fulfillable_df[p].order_id
        IN  fulfillable_df[p].sku_qty =
              JoinCommaSpace(
                [n \in 1..Len(Parsed(k)) |->
                   (IF Get(RecordOf(Parsed(k)[n][1]), "sku", <<>>) = <<>>
                    THEN UNKNOWN
                    ELSE Get(RecordOf(Parsed(k)[n][1]), "sku", <<>>))
                   \o <<"*">> \o IntToStr(Parsed(k)[n][2])])

AllOutputs == {"fulfillable.csv", "unfulfillable.csv", "misc.csv"}

\* C9: a row whose processing raised is in Misc and nowhere else, the next
\* row is processed after it, and a run that entered the row loop reaches
\* the end with every row classified and the outputs written.
RowErrorsNeverAbort ==
    /\ [](\A k \in 1..Len(log) :
            log[k].path \in {"except", "except_concat"} =>
                /\ k \in Ids(misc_df)
                /\ k \notin Ids(fulfillable_df) \cup Ids(unfulfillable_df))
    /\ (pc = "loop") ~>
          (pc = "done" /\ i = Len(df) /\ Len(log) = Len(df)
           /\ written = AllOutputs)

\* a row raised, went to Misc, a later row was fulfilled and the run ended
RowErrorsWitness ==
    /\ pc = "done"
    /\ Len(log) = 2
    /\ log[1].path = "except"
    /\ Ids(misc_df) = {1}
    /\ Ids(fulfillable_df) = {2}

\* C10: without an items file, with an empty ledger or without a labels
\* file the run returns with no row processed, no row classified and no
\* output written, having printed the message of its cause, which differs
\* between the inventory causes and the order-batch cause; and only a run
\* with none of these conditions enters the row loop. (A run that int() of
\* line 145 ended has no ledger; it too has processed and written nothing.)
FatalConditions ==
    /\ pc # "start" /\ (~items_exists \/ stock = <<>> \/ ~labels_exists)
          => pc \in {"loaded", "returned", "raised"}
    /\ pc \in {"loaded", "returned", "raised"} =>
          /\ i = 0 /\ log = <<>> /\ df = <<>>
          /\ fulfillable_df = <<>> /\ unfulfillable_df = <<>> /\ misc_df = <<>>
          /\ written = {}
    /\ pc = "returned" =>
          /\ ~items_exists => printed = <<Msg("items file not found")>>
          /\ items_exists /\ stock = <<>> =>
                printed = <<Msg("no valid barcodes")>>
          /\ items_exists /\ stock # <<>> =>
                ~labels_exists /\ printed = <<Msg("labels file not found")>>

\* a snapshot of records without barcode ended the run
FatalConditionsWitness ==
    /\ pc = "returned"
    /\ items_exists
    /\ Len(items) > 0
    /\ stock = <<>>
    /\ labels_exists

\* the rows of a frame are in the order of their input positions
InInputOrder(frame) ==
    \A a, b \in 1..Len(frame) :
        a < b => frame[a].order_id < frame[b].order_id

\* C11: at every point of the run, in each of Fulfillable, Unfulfillable and
\* Misc the rows are in the relative order of the input batch: of two rows of
\* the same frame, the one that is earlier in the input comes first.
OutputOrder ==
    /\ InInputOrder(fulfillable_df)
    /\ InInputOrder(unfulfillable_df)
    /\ InInputOrder(misc_df)

\* both rows of a batch were emitted to the same frame
OutputOrderWitness ==
    /\ Len(df) = 2
    /\ \/ Ids(fulfillable_df) = {1, 2}
       \/ Ids(unfulfillable_df) = {1, 2}
       \/ Ids(misc_df) = {1, 2}

\* C12: every line item that parse_label returns has a quantity >= 1, so
\* that no line item of quantity 0 reaches the fulfillability check or a
\* row of Fulfillable.
PositiveQuantities ==
    \A k \in 1..Len(log) :
        \A n \in 1..Len(Parsed(k)) : Parsed(k)[n][2] >= 1

\* row k was parsed into line items whose barcodes all begin with a digit
\* character
DigitInitialRow(k) ==
    /\ log[k].parsed.exc = "none"
    /\ Parsed(k) # <<>>
    /\ \A n \in 1..Len(Parsed(k)) :
          Parsed(k)[n][1] # <<>> /\ IsDigitChar(Parsed(k)[n][1][1])

\* C13: a row of digit-initial barcodes of which one is not in the ledger is
\* emitted to Unfulfillable, by the fulfillability branch and not by the
\* error handler, and not to Misc; the ledger after the row is the ledger
\* before it, and the missing barcode has not become a key of the ledger.
LookupMiss ==
    \A k \in 1..Len(log) :
        \A n \in 1..Len(Parsed(k)) :
            DigitInitialRow(k) /\ Parsed(k)[n][1] \notin DOMAIN log[k].before =>
                /\ log[k].path = "unfulfillable"
                /\ k \in Ids(unfulfillable_df)
                /\ k \notin Ids(misc_df) \cup Ids(fulfillable_df)
                /\ After(k) = log[k].before
                /\ Parsed(k)[n][1] \notin DOMAIN After(k)
                /\ Parsed(k)[n][1] \notin DOMAIN stock

\* a two-item row whose first item is in stock and whose second barcode is
\* not in the ledger ended in Unfulfillable
LookupMissWitness ==
    \E k \in 1..Len(log) :
        /\ DigitInitialRow(k)
        /\ Len(Parsed(k)) = 2
        /\ ~Unsatisfiable(k, 1)
        /\ Parsed(k)[2][1] \notin DOMAIN log[k].before
        /\ k \in Ids(unfulfillable_df)

\* the ledger the row loop started from
InitialStock == IF log = <<>> THEN stock ELSE log[1].before

\* the total quantity of barcode b requested by the first n rows of Fulfillable
RECURSIVE Reserved(_, _)
Reserved(b, n) ==
    IF n = 0 THEN 0
    ELSE Reserved(b, n - 1) + RequestedFrom(fulfillable_df[n].order_id, b, 1)

\* C14: at every point of the row loop and after it, the ledger has the
\* barcodes it started with, each at its initial quantity minus the
\* quantities that the rows emitted to Fulfillable so far requested of it;
\* and no row increased a quantity or changed the set of barcodes.
StockConservation ==
    pc \in {"loop", "done"} =>
        /\ DOMAIN stock = DOMAIN InitialStock
        /\ \A b \in DOMAIN stock :
              stock[b] = InitialStock[b] - Reserved(b, Len(fulfillable_df))
        /\ \A k \in 1..Len(log) :
              /\ DOMAIN After(k) = DOMAIN log[k].before
              /\ \A b \in DOMAIN After(k) : After(k)[b] <= log[k].before[b]

\* C19: a row that ended in Misc, by the classifier or by the error handler
\* wherever in the try block the error was raised, left every ledger
\* quantity as it was.
MiscRowsLeaveLedger ==
    \A k \in 1..Len(log) :
        k \in Ids(misc_df) => After(k) = log[k].before

\* C17: every row of Unfulfillable and of Misc is its input row, column for
\* column and with no other column; every row of Fulfillable has the columns
\* of its input row with the same values and the one further column sku_qty;
\* and the rows of the batch are not changed while they are classified.
PassThrough ==
    /\ [](/\ \A p \in 1..Len(unfulfillable_df) :
                unfulfillable_df[p] = df[unfulfillable_df[p].order_id]
          /\ \A p \in 1..Len(misc_df) :
                misc_df[p] = df[misc_df[p].order_id]
          /\ \A p \in 1..Len(fulfillable_df) :
                LET out == fulfillable_df[p]
                    in == df[out.order_id]
                IN  /\ "sku_qty" \notin DOMAIN in
                    /\ DOMAIN out = DOMAIN in \cup {"sku_qty"}
                    /\ \A c \in DOMAIN in : out[c] = in[c])
    /\ [][pc = "loop" => df' = df]_vars

\* a batch was classified into one Fulfillable row and one row of another
\* frame
PassThroughWitness ==
    /\ pc = "done"
    /\ Len(fulfillable_df) = 1
    /\ Len(unfulfillable_df) + Len(misc_df) = 1

\* C16: the ledger built from a snapshot has as keys exactly the non-empty
\* barcodes of the records, each with the quantity (0 when absent) and the sku
\* (empty when absent) of the last record of the snapshot that has the
\* barcode; records with no barcode or an empty one add nothing.
LedgerConstruction ==
    pc = "loaded" =>
        /\ DOMAIN stock =
              {items[n].barcode : n \in {m \in 1..Len(items) :
                  "barcode" \in DOMAIN items[m] /\ items[m].barcode # <<>>}}
        /\ DOMAIN sku_dict = DOMAIN stock
        /\ \A b \in DOMAIN stock :
              /\ "quantity" \notin DOMAIN RecordOf(b) => stock[b] = 0
              /\ /\ "quantity" \in DOMAIN RecordOf(b)
                 /\ RecordOf(b).quantity.type = "int"
                 => stock[b] = RecordOf(b).quantity.int
              /\ sku_dict[b] = IF "sku" \in DOMAIN RecordOf(b)
                               THEN RecordOf(b).sku ELSE <<>>

\* a barcode with quantity 5, a record without barcode, and the barcode
\* again without quantity or sku: the ledger holds the barcode at 0
LedgerConstructionWitness ==
    /\ pc = "loaded"
    /\ Len(items) = 3
    /\ items[1] = [barcode |-> <<"1">>, quantity |-> JInt(5), sku |-> SKU_A]
    /\ "barcode" \notin DOMAIN items[2]
    /\ items[3] = [barcode |-> <<"1">>]
    /\ stock = [b \in {<<"1">>} |-> 0]
    /\ sku_dict = [b \in {<<"1">>} |-> <<>>]

\* the positions of the program inside process_orders
InProcessOrders ==
    pc \in {"start", "loaded", "returned", "raised", "loop", "done"}

\* the request failed or was answered with a status other than 200
FailedResponse(r) == r.kind = "RequestException" \/ r.status_code # 200

\* C15: process_orders is entered, and a row processed, only after
\* fetch_all_items has returned a non-empty list; a run in which a request
\* failed or got a non-200 status, or in which the fetch returned None,
\* never enters process_orders; and no request is issued once process_orders
\* has been entered.
LoaderBeforeCore ==
    /\ [](InProcessOrders \/ log # <<>> =>
             fetched.type = "list" /\ fetched.list # <<>>)
    /\ [](fetched = ReturnNone
          \/ (\E n \in 1..Len(responses) : FailedResponse(responses[n]))
             => ~InProcessOrders /\ log = <<>>)
    /\ [][InProcessOrders => requests' = requests]_vars

\* two pages were fetched and then a batch of two rows was processed to
\* the end
LoaderBeforeCoreWitness ==
    /\ pc = "done"
    /\ Len(requests) = 2
    /\ Len(log) = 2

\* the items of the body of a response (none when there is no JSON body)
ItemsOfBody(json) ==
    IF json.type = "list" THEN json.list
    ELSE IF json.type = "dict" THEN page_items(json.dict)
    ELSE <<>>

\* a 200 response whose has_more flag is falsy or absent, or whose cursor is
\* absent or empty
LastPage(r) ==
    /\ r.kind = "Response"
    /\ r.status_code = 200
    /\ \/ r.json.type = "list"
       \/ ~has_more(r.json.dict)
       \/ ~Truthy(next_cursor(r.json.dict))

\* the items of the first n responses, in page order
RECURSIVE ItemsUpTo(_)
ItemsUpTo(n) ==
    IF n = 0 THEN <<>>
    ELSE ItemsUpTo(n - 1) \o ItemsOfBody(responses[n].json)

\* fetch_all_items has returned or was left by an uncaught exception
FetchEnded == pc \in {"main", "crashed"}

\* C20: the first request carries no cursor and request n+1 carries the
\* cursor of response n; no request follows a last page, a non-200 response
\* or a request failure; a call that received a last page ends by returning
\* the items of all pages fetched, in page order; and every call ends.
PaginationLoop ==
    /\ [](\A n \in 1..Len(requests) :
            IF n = 1 THEN "cursor" \notin DOMAIN requests[n]
            ELSE /\ "cursor" \in DOMAIN requests[n]
                 /\ requests[n].cursor = next_cursor(responses[n - 1].json.dict))
    /\ [](\A n \in 1..Len(responses) :
            LastPage(responses[n]) \/ FailedResponse(responses[n])
                => Len(requests) = n)
    /\ [](FetchEnded /\ (\E n \in 1..Len(responses) : LastPage(responses[n]))
             => pc = "main" /\ fetched = JList(ItemsUpTo(Len(responses))))
    /\ <>FetchEnded
    /\ [][FetchEnded => requests' = requests]_vars

====
